---- MODULE Spec2Model ----
(***************************************************************************)
(* The caching XKCD proxy of src/xkcd-api.ts as a state machine.           *)
(*                                                                         *)
(* The server runs on a single-threaded event loop: code between two      *)
(* awaits on real I/O runs to completion.  A request therefore advances   *)
(* in atomic steps: Handler (entry of handler up to the first outbound    *)
(* fetch or the response) and FetchSettled (the upstream's answer has     *)
(* arrived and its body has been read: the entry is stored and the        *)
(* handler runs on to its next fetch or to the response).  The two awaits *)
(* of fetchWithCache, on fetch(url) and on response.json(), are one step: *)
(* the code reads and writes nothing shared between them.  Tick lets the  *)
(* wall clock advance between steps.                                      *)
(*                                                                         *)
(* The plain image servers of src/web.js and src/web.cjs share nothing     *)
(* with the proxy; PlainSpec runs them on their own.                       *)
(*                                                                         *)
(* Strings that the code inspects character by character (the request     *)
(* path) are sequences of one-character strings; strings it only builds   *)
(* (cache keys, URLs) are TLA+ strings.                                    *)
(***************************************************************************)
EXTENDS Integers, Sequences, FiniteSets, TLC

VARIABLES
    cache,    \* the Map of line 9, as a set of entries [key, data, timestamp]
    now,      \* Date.now(), in milliseconds
    reqs,     \* slot -> the in-flight request held by the slot
    started,  \* number of requests accepted so far
    out,      \* the response returned by the last step (NoResponse if none)
    gets,     \* the getCached calls made by the last step, in order
    plain     \* the requests the plain image servers have received, in order

vars == <<cache, now, reqs, started, out, gets, plain>>

(***************************************************************************)
(* Bounds of the model.                                                    *)
(***************************************************************************)
MaxRequests == 2   \* requests accepted in one behaviour
MaxTicks == 2      \* clock advances in one behaviour
MaxNum == 2        \* largest comic number the upstream reports
RandDen == 4       \* Math.random() ranges over k / RandDen, 0 <= k < RandDen

(***************************************************************************)
(* Program constants.                                                      *)
(***************************************************************************)
CACHE_DURATION == 3600000

\* two requests can be in flight at the same time
Slots == {1, 2}

(***************************************************************************)
(* JavaScript values.  A fetched JSON value is an object carrying a num    *)
(* field (a comic), or the JSON value null, the falsy value of the model.  *)
(* The latest comic the upstream reports is the first one or number        *)
(* MaxNum.                                                                 *)
(***************************************************************************)
Obj(n) == [kind |-> "object", num |-> n]
Null == [kind |-> "null", num |-> 0]

JsonValues == {Obj(n) : n \in {1, MaxNum}} \cup {Null}

\* JavaScript truthiness, as tested by `if (cached)`
Truthy(v) == v.kind = "object"

\* `${num}` in a template string
NumToString(n) == ToString(n)

(***************************************************************************)
(* Request paths and methods.                                              *)
(***************************************************************************)
Methods == {"GET", "POST", "OPTIONS"}

Root == <<"/">>
LatestPath == <<"/", "l", "a", "t", "e", "s", "t">>
RandomPath == <<"/", "r", "a", "n", "d", "o", "m">>
StatsPath == <<"/", "c", "a", "c", "h", "e", "/", "s", "t", "a", "t", "s">>
ClearPath == <<"/", "c", "a", "c", "h", "e", "/", "c", "l", "e", "a", "r">>

Paths ==
    {Root, LatestPath, RandomPath, <<"/", "1">>, <<"/", "0">>, StatsPath,
     ClearPath, <<"/", "1", "a">>}

\* the requests the clients send
Requests ==
    {<<"GET", p>> : p \in Paths \ {Root}}
        \cup {<<"OPTIONS", p>> : p \in {Root, ClearPath, <<"/", "1", "a">>}}
        \cup {<<"POST", <<"/", "1", "a">>>>}

Digits == <<"0", "1", "2", "3", "4", "5", "6", "7", "8", "9">>

IsDigit(c) == \E i \in 1..10 : Digits[i] = c

DigitValue(c) == (CHOOSE i \in 1..10 : Digits[i] = c) - 1

\* a pattern that takes positive numbers only, /^\/[1-9]\d*$/
IsPositiveNumberPath(path) ==
    /\ Len(path) >= 2
    /\ path[1] = "/"
    /\ path[2] # "0"
    /\ \A i \in 2..Len(path) : IsDigit(path[i])

\* /^\/\d+$/.test(path)
IsNumberPath(path) ==
    /\ Len(path) >= 2
    /\ path[1] = "/"
    /\ \A i \in 2..Len(path) : IsDigit(path[i])

\* parseInt on a string of decimal digits
RECURSIVE parseInt(_)
parseInt(s) ==
    IF Len(s) = 0 THEN 0
    ELSE 10 * parseInt(SubSeq(s, 1, Len(s) - 1)) + DigitValue(s[Len(s)])

\* a switch whose default case falls through to the latest comic
RouteLatestByDefault(path) ==
    CASE path = RandomPath -> "random"
      [] IsNumberPath(path) -> "comic"
      [] path = StatsPath -> "stats"
      [] path = ClearPath -> "clear"
      [] OTHER -> "latest"

\* the switch (true) of the handler: the first case that matches
Route(path) ==
    CASE path = Root \/ path = LatestPath -> "latest"
      [] path = RandomPath -> "random"
      [] IsNumberPath(path) -> "comic"
      [] path = StatsPath -> "stats"
      [] path = ClearPath -> "clear"
      [] OTHER -> "notfound"

LatestUrl == "https://xkcd.com/info.0.json"
LatestKey == "latest"
ComicUrl(num) == "https://xkcd.com/" \o NumToString(num) \o "/info.0.json"
\* the key without its prefix
ComicKeyBare(num) == NumToString(num)

ComicKey(num) == "comic-" \o NumToString(num)

\* url.pathname as the string the code embeds in a response
RECURSIVE PathString(_)
PathString(path) ==
    IF Len(path) = 0 THEN ""
    ELSE PathString(SubSeq(path, 1, Len(path) - 1)) \o path[Len(path)]

(***************************************************************************)
(* The cache store.                                                        *)
(***************************************************************************)
HasEntry(c, key) == \E e \in c : e.key = key

EntryOf(c, key) == CHOOSE e \in c : e.key = key

\* cache.keys()
CacheKeys(c) == {e.key : e \in c}

\* age < CACHE_DURATION
\* the same test with the boundary on the wrong side
IsFreshInclusive(age) == age <= CACHE_DURATION

IsFresh(age) == age < CACHE_DURATION

\* cache.delete(key)
CacheDelete(c, key) == {e \in c : e.key # key}

\* what getCached returns
getCachedReturn(c, key, t) ==
    IF HasEntry(c, key) /\ IsFresh(t - EntryOf(c, key).timestamp)
    THEN EntryOf(c, key).data
    ELSE Null

\* a lookup that restarts the TTL of the entry it returns
getCachedStoreRefreshing(c, key, t) ==
    IF HasEntry(c, key) /\ ~IsFresh(t - EntryOf(c, key).timestamp)
    THEN CacheDelete(c, key)
    ELSE {IF e.key = key THEN [e EXCEPT !.timestamp = t] ELSE e : e \in c}

\* a lookup that sweeps every stale entry out of the store
getCachedStoreSweeping(c, key, t) ==
    {e \in c : IsFresh(t - e.timestamp)}

\* the store getCached leaves behind
getCachedStore(c, key, t) ==
    IF HasEntry(c, key) /\ ~IsFresh(t - EntryOf(c, key).timestamp)
    THEN CacheDelete(c, key)
    ELSE c

\* a put that leaves the entry a key already has in place
setCacheIfAbsent(c, key, data, t) ==
    IF \E e \in c : e.key = key THEN c
    ELSE c \cup {[key |-> key, data |-> data, timestamp |-> t]}

\* a store that keeps the entry a key had next to its new one
setCacheKeepingOld(c, key, data, t) ==
    c \cup {[key |-> key, data |-> data, timestamp |-> t]}

\* cache.set(key, {data, timestamp: Date.now()})
setCache(c, key, data, t) ==
    {e \in c : e.key # key} \cup {[key |-> key, data |-> data, timestamp |-> t]}

\* cache.clear()
CacheClear(c) == {}

\* the record of one getCached call, kept in gets
GetCall(c, key, t) ==
    [key    |-> key,
     had    |-> HasEntry(c, key),
     age    |-> IF HasEntry(c, key) THEN t - EntryOf(c, key).timestamp ELSE 0,
     ret    |-> getCachedReturn(c, key, t),
     before |-> c,
     after  |-> getCachedStore(c, key, t)]

(***************************************************************************)
(* Upstream answers.                                                       *)
(***************************************************************************)
\* status 0 stands for a fetch that rejects (no response at all)
UpstreamStatuses == {0, 200, 404, 503}

\* response.ok
ResponseOk(status) == status >= 200 /\ status <= 299

StatusText(status) ==
    CASE status = 200 -> "OK"
      [] status = 404 -> "Not Found"
      [] status = 503 -> "Service Unavailable"
      [] OTHER -> ""

\* Error messages are sequences of the pieces they are built from.

\* the message without the status code, as `HTTP ${response.statusText}`
HttpErrorMessageNoStatus(status) == <<"HTTP ", StatusText(status)>>

HttpErrorMessage(status) == <<"HTTP ", ToString(status), ": ", StatusText(status)>>
NetworkErrorMessage == <<"error sending request">>
SyntaxErrorMessage == <<"Unexpected token in JSON">>
NullPropertyMessage == <<"Cannot read properties of null (reading 'num')">>

\* a body that is not valid JSON
InvalidJson == [kind |-> "invalid", num |-> 0]

\* the upstream's answer to one fetch: its status and, when the status is a
\* success, the body read from it
UpstreamAnswer(status, data) ==
    [status |-> status, body |-> IF ResponseOk(status) THEN data ELSE InvalidJson]

\* The bodies the upstream can send for a request's outbound fetch: the
\* latest comic is any comic, comic n is comic n, and either can be null or
\* no JSON at all.
UpstreamBodies(rq) ==
    (IF rq.stage = "latest" THEN JsonValues ELSE {Obj(rq.num), Null})
        \cup {InvalidJson}

(***************************************************************************)
(* Requests and responses.                                                 *)
(***************************************************************************)
\* A slot holds the locals of the request it serves: the operation matched
\* (op), the lookup in progress (stage, url, key, num), latest.num once
\* getRandomXkcd has it (ordinal), the outbound fetches issued (calls) and
\* the upstream's answers to them (resps), and whether a lookup of the
\* request deleted a stale entry (evicted).
IdleReq ==
    [pc |-> "idle", method |-> "", path |-> <<>>, op |-> "", stage |-> "",
     url |-> "", key |-> "", num |-> 0, ordinal |-> 0, evicted |-> FALSE,
     calls |-> <<>>, resps |-> <<>>]

NoBody == [empty |-> TRUE]

\* A response: what the client receives (status, xcache, body), the lines
\* of the request log that logRequest wrote for it, each as its status
\* (log), the errors the catch block dumped through console.error (errors),
\* and the locals of the request it ends.
NoResponse ==
    [req |-> 0, method |-> "", path |-> <<>>, status |-> 0, xcache |-> "",
     body |-> NoBody, log |-> <<>>, errors |-> <<>>,
     op |-> "", stage |-> "", key |-> "",
     num |-> 0, ordinal |-> 0, evicted |-> FALSE, calls |-> <<>>, resps |-> <<>>]

\* a response returned without its line in the request log
ResponseUnlogged(r, rq, status, xcache, body) ==
    [req |-> r, method |-> rq.method, path |-> rq.path, status |-> status,
     xcache |-> xcache, body |-> body,
     log |-> IF status = 404 THEN <<>> ELSE <<status>>, errors |-> <<>>,
     op |-> rq.op, stage |-> rq.stage, key |-> rq.key, num |-> rq.num,
     ordinal |-> rq.ordinal, evicted |-> rq.evicted,
     calls |-> rq.calls, resps |-> rq.resps]

\* new Response(body, {status, headers}) preceded by logRequest(req, status, ..)
Response(r, rq, status, xcache, body) ==
    [req |-> r, method |-> rq.method, path |-> rq.path, status |-> status,
     xcache |-> xcache, body |-> body, log |-> <<status>>, errors |-> <<>>,
     op |-> rq.op, stage |-> rq.stage, key |-> rq.key, num |-> rq.num,
     ordinal |-> rq.ordinal, evicted |-> rq.evicted,
     calls |-> rq.calls, resps |-> rq.resps]

\* the endpoint field of a success envelope
Endpoint(rq) ==
    CASE rq.op = "latest" -> "latest"
      [] rq.op = "random" -> "random"
      [] rq.op = "comic" ->
            "comic-" \o NumToString(parseInt(SubSeq(rq.path, 2, Len(rq.path))))
      [] OTHER -> PathString(rq.path)

\* an envelope whose flag is true only if the request made no outbound call
SuccessResponseNoCallAtAll(r, rq, result, t) ==
    Response(r, rq, 200, IF result.cached /\ rq.calls = <<>> THEN "HIT" ELSE "MISS",
             [success |-> TRUE, data |-> result.data,
              cached |-> result.cached /\ rq.calls = <<>>,
              endpoint |-> Endpoint(rq), timestamp |-> t])

\* lines 162-179: the success envelope
SuccessResponse(r, rq, result, t) ==
    Response(r, rq, 200, IF result.cached THEN "HIT" ELSE "MISS",
             [success |-> TRUE, data |-> result.data, cached |-> result.cached,
              endpoint |-> Endpoint(rq), timestamp |-> t])

\* lines 181-195: the catch block
ErrorResponse(r, rq, message) ==
    [Response(r, rq, 500, "",
              [success |-> FALSE,
               error |-> IF Len(message) > 0 THEN message
                         ELSE <<"Internal Server Error">>])
     EXCEPT !.errors = <<message>>]

\* lines 146-159: the default case
NotFoundResponse(r, rq) ==
    Response(r, rq, 404, "",
             [success |-> FALSE, error |-> <<"Not Found">>,
              path |-> PathString(rq.path)])

\* lines 98-104: the preflight answer
PreflightResponse(r, rq) == Response(r, rq, 204, "", NoBody)

(***************************************************************************)
(* The request flow.  An effect is what a run of code leaves behind: the   *)
(* store, the request's slot, the response returned (NoResponse while the  *)
(* request waits on the upstream) and the getCached calls made.            *)
(***************************************************************************)
Effect(c, rq, resp, calls) == [cache |-> c, req |-> rq, out |-> resp, gets |-> calls]

\* lines 42-50: fetchWithCache from its entry to `await fetch(url)`, for a
\* lookup whose result the handler returns as it is (latest, by number, and
\* the second lookup of random)
FetchWithCache(r, rq, c, num, url, key, t, calls) ==
    LET cached == getCachedReturn(c, key, t)
        store == getCachedStore(c, key, t)
        made == Append(calls, GetCall(c, key, t))
        rqk == [rq EXCEPT !.url = url, !.key = key, !.num = num,
                          !.evicted = rq.evicted \/ store # c]
    IN  IF Truthy(cached)
        THEN Effect(store, IdleReq,
                    SuccessResponse(r, rqk, [data |-> cached, cached |-> TRUE], t),
                    made)
        ELSE Effect(store,
                    [rqk EXCEPT !.pc = "fetch", !.calls = Append(rq.calls, url)],
                    NoResponse, made)

\* Math.round in the place of Math.floor
RandomNumRounded(rnd, n) == ((2 * rnd * n + RandDen) \div (2 * RandDen)) + 1

\* Math.floor(Math.random() * n) + 1, with Math.random() = rnd / RandDen
RandomNum(rnd, n) == ((rnd * n) \div RandDen) + 1

\* lines 78-80: getRandomXkcd once getLatestXkcd has returned `latest`
RandomAfterLatest(r, rq, c, latest, rnd, t, calls) ==
    IF latest.kind = "null"
    THEN Effect(c, IdleReq, ErrorResponse(r, rq, NullPropertyMessage), calls)
    ELSE LET randomNum == RandomNum(rnd, latest.num)
         IN  FetchWithCache(r, [rq EXCEPT !.stage = "comic", !.ordinal = latest.num],
                            c, randomNum,
                            ComicUrl(randomNum), ComicKey(randomNum), t, calls)

\* lines 127-136
StatsResult(c) ==
    [data |-> [size |-> Cardinality(c), keys |-> CacheKeys(c),
               maxAge |-> CACHE_DURATION],
     cached |-> FALSE]

\* lines 138-144: the store is cleared before its size is read
ClearResult(c) ==
    LET cleared == CacheClear(c)
    IN  [store |-> cleared,
         data |-> [message |-> "Cache cleared", previousSize |-> Cardinality(cleared)],
         cached |-> FALSE]

\* the comparison with the method name in lower case
IsPreflightLowerCase(method) == method = "options"

\* req.method === "OPTIONS"
IsPreflight(method) == method = "OPTIONS"

\* lines 92-196: handler from its entry to its first wait on the upstream
HandlerEffect(r, method, path, rnd, c, t) ==
    LET rq == [IdleReq EXCEPT !.pc = "run", !.method = method, !.path = path]
        op == Route(path)
        rqo == [rq EXCEPT !.op = op]
    IN  IF IsPreflight(method)
        THEN Effect(c, IdleReq, PreflightResponse(r, rq), <<>>)
        ELSE CASE op = "latest" ->
                    FetchWithCache(r, [rqo EXCEPT !.stage = "latest"], c, 0,
                                   LatestUrl, LatestKey, t, <<>>)
               [] op = "random" ->
                    LET cached == getCachedReturn(c, LatestKey, t)
                        store == getCachedStore(c, LatestKey, t)
                        made == <<GetCall(c, LatestKey, t)>>
                    IN  IF Truthy(cached)
                        THEN RandomAfterLatest(r, [rqo EXCEPT !.key = LatestKey],
                                               store, cached, rnd, t, made)
                        ELSE Effect(store,
                                    [rqo EXCEPT !.pc = "fetch", !.stage = "latest",
                                                !.url = LatestUrl, !.key = LatestKey,
                                                !.evicted = store # c,
                                                !.calls = <<LatestUrl>>],
                                    NoResponse, made)
               [] op = "comic" ->
                    LET num == parseInt(SubSeq(path, 2, Len(path)))
                    IN  FetchWithCache(r, [rqo EXCEPT !.stage = "comic"], c, num,
                                       ComicUrl(num), ComicKey(num), t, <<>>)
               [] op = "stats" ->
                    Effect(c, IdleReq, SuccessResponse(r, rqo, StatsResult(c), t), <<>>)
               [] op = "clear" ->
                    Effect(ClearResult(c).store, IdleReq,
                           SuccessResponse(r, rqo,
                                           [data |-> ClearResult(c).data,
                                            cached |-> ClearResult(c).cached], t),
                           <<>>)
               [] OTHER ->
                    Effect(c, IdleReq, NotFoundResponse(r, rqo), <<>>)

\* a failed latest lookup of /random answered with comic 1 in its place
ThrowWithFallback(r, rq, c, t, message) ==
    IF rq.op = "random" /\ rq.stage = "latest"
    THEN RandomAfterLatest(r, rq, c, Obj(1), 0, t, <<>>)
    ELSE Effect(c, IdleReq, ErrorResponse(r, rq, message), <<>>)

\* a failed fetch issued a second time
ThrowWithRetry(r, rq, c, t, message) ==
    IF Len(rq.calls) = Len(rq.resps) /\ Len(rq.calls) < 3
    THEN Effect(c, [rq EXCEPT !.calls = Append(rq.calls, rq.url)], NoResponse, <<>>)
    ELSE Effect(c, IdleReq, ErrorResponse(r, rq, message), <<>>)

\* An error thrown inside fetchWithCache: no caller catches it (lines 61-81)
\* before the catch block of the handler (line 181), which answers it.
Throw(r, rq, c, t, message) ==
    Effect(c, IdleReq, ErrorResponse(r, rq, message), <<>>)

\* lines 50-57 and the caller's continuation: the fetch has settled with
\* `status` (0: the fetch rejected) and, when the status is a success, the
\* body has been read as `data` (InvalidJson: response.json() rejected)
FetchSettledEffect(r, rq, status, data, rnd, c, t) ==
    LET got == [rq EXCEPT !.resps = Append(rq.resps, UpstreamAnswer(status, data))]
    IN  IF status = 0
        THEN Throw(r, got, c, t, NetworkErrorMessage)
        ELSE IF ~ResponseOk(status)
        THEN Throw(r, got, c, t, HttpErrorMessage(status))
        ELSE IF data = InvalidJson
        THEN Throw(r, got, c, t, SyntaxErrorMessage)
        ELSE LET store == setCache(c, got.key, data, t)
             IN  IF got.op = "random" /\ got.stage = "latest"
                 THEN RandomAfterLatest(r, got, store, data, rnd, t, <<>>)
                 ELSE Effect(store, IdleReq,
                             SuccessResponse(r, got, [data |-> data, cached |-> FALSE], t),
                             <<>>)

(***************************************************************************)
(* The state machine.                                                      *)
(***************************************************************************)
Init ==
    /\ cache = {}
    /\ now = 0
    /\ reqs = [r \in Slots |-> IdleReq]
    /\ started = 0
    /\ out = NoResponse
    /\ gets = <<>>
    /\ plain = <<>>

\* the values Math.random() can take (as numerators over RandDen) where the
\* step draws one; a step that draws none has a single outcome
RandomDraws(draws) == IF draws THEN 0..(RandDen - 1) ELSE {0}

Apply(r, eff) ==
    /\ cache' = eff.cache
    /\ reqs' = [reqs EXCEPT ![r] = eff.req]
    /\ out' = eff.out
    /\ gets' = eff.gets

\* a request arrives and is served by the lowest free slot
Handler(r) ==
    /\ reqs[r].pc = "idle"
    /\ \A q \in Slots : q < r => reqs[q].pc # "idle"
    /\ started < MaxRequests
    /\ started' = started + 1
    /\ now' = now
    /\ plain' = plain
    /\ \E rq \in Requests :
          \E rnd \in RandomDraws(rq = <<"GET", RandomPath>>) :
             Apply(r, HandlerEffect(r, rq[1], rq[2], rnd, cache, now))

\* the upstream answers the request's outbound fetch, or the fetch fails
FetchSettled(r) ==
    /\ reqs[r].pc = "fetch"
    /\ UNCHANGED <<now, started, plain>>
    /\ \E status \in UpstreamStatuses :
          \E data \in (IF ResponseOk(status) THEN UpstreamBodies(reqs[r])
                        ELSE {InvalidJson}) :
             \E rnd \in RandomDraws(/\ reqs[r].op = "random"
                                    /\ reqs[r].stage = "latest"
                                    /\ data.kind = "object") :
                Apply(r, FetchSettledEffect(r, reqs[r], status, data, rnd, cache, now))

\* The instants at which the model reads the clock: one millisecond before
\* and exactly at every whole CACHE_DURATION.
Instant(k) == ((k + 1) \div 2) * CACHE_DURATION - (k % 2)

\* Time passes.  Only the age of an entry is observable, so the clock of the
\* model stands still while the store is empty: a behaviour whose clock
\* advances then is the same behaviour shifted in time.
Tick ==
    /\ now < Instant(MaxTicks)
    /\ cache # {}
    /\ now' = now + (IF now % CACHE_DURATION = 0 THEN CACHE_DURATION - 1 ELSE 1)
    /\ out' = NoResponse
    /\ gets' = <<>>
    /\ UNCHANGED <<cache, reqs, started, plain>>

Next ==
    \/ \E r \in Slots : Handler(r)
    \/ \E r \in Slots : FetchSettled(r)
    \/ Tick

Spec == Init /\ [][Next]_vars

\* The same program with an upstream that answers: every outbound fetch that
\* is pending eventually settles, with a response or with a failure.
FairSpec == Spec /\ \A r \in Slots : WF_vars(FetchSettled(r))

(***************************************************************************)
(* The plain image servers: the server of src/web.js (lines 24-41) and     *)
(* the server of src/web.cjs.  Each hands the request to xkcd.img, a       *)
(* library that calls its callback once, with an error or with the image.  *)
(* A request records the status lines written (heads), the body the        *)
(* response ended with and the number of times it was ended (ends).        *)
(***************************************************************************)
PlainServers == {"web.js", "web.cjs"}

PlainMethods == {"GET", "POST", "PUT", "DELETE", "OPTIONS"}

PlainReq(server, method) ==
    [server |-> server, method |-> method, pc |-> "run", heads |-> <<>>,
     body |-> NoBody, ends |-> 0]

\* res.writeHead(status, headers)
writeHead(rq, status) == [rq EXCEPT !.heads = Append(@, status)]

\* res.end(body)
resEnd(rq, body) == [rq EXCEPT !.body = body, !.ends = @ + 1, !.pc = "done"]

\* JSON.stringify(value)
JsonStringify(value) == [json |-> TRUE, value |-> value]

\* what xkcd.img hands to its callback: (err, data)
ImgResults ==
    {[err |-> TRUE, message |-> "getaddrinfo ENOTFOUND"],
     [err |-> TRUE, message |-> ""],
     [err |-> FALSE, data |-> [url |-> "http://imgs.xkcd.com/comics/a.png",
                               title |-> "a"]]}

\* web.cjs lines 17-20
handlePreflight(rq) == resEnd(writeHead(rq, 204), NoBody)

\* web.js lines 24-35: the request listener up to the call of xkcd.img
WebJsServer(rq) == [writeHead(rq, 200) EXCEPT !.pc = "img"]

\* web.js lines 35-40: the callback of xkcd.img
WebJsImg(rq, res) ==
    IF res.err
    THEN resEnd(rq, JsonStringify([error |-> res.message]))
    ELSE resEnd(rq, JsonStringify(res.data))

\* web.cjs lines 45-53 and 23-26: the request listener up to the call of
\* xkcd.img
WebCjsServer(rq) ==
    IF rq.method = "OPTIONS" THEN handlePreflight(rq)
    ELSE [rq EXCEPT !.pc = "img"]

\* web.cjs lines 26-41: the callback of xkcd.img
handleXkcdRequest(rq, res) ==
    IF res.err
    THEN resEnd(writeHead(rq, 500),
                JsonStringify([success |-> FALSE,
                               error |-> IF res.message # "" THEN res.message
                                         ELSE "Failed to fetch XKCD image"]))
    ELSE resEnd(writeHead(rq, 200),
                JsonStringify([success |-> TRUE, data |-> res.data]))

\* a request to / reaches one of the servers
PlainRequest ==
    /\ Len(plain) < MaxRequests
    /\ \E server \in PlainServers : \E method \in PlainMethods :
          plain' = Append(plain,
                          IF server = "web.js"
                          THEN WebJsServer(PlainReq(server, method))
                          ELSE WebCjsServer(PlainReq(server, method)))
    /\ UNCHANGED <<cache, now, reqs, started, out, gets>>

\* xkcd.img calls the callback of a request
PlainImg ==
    /\ \E i \in 1..Len(plain) :
          /\ plain[i].pc = "img"
          /\ \E res \in ImgResults :
                plain' = [plain EXCEPT ![i] =
                             IF plain[i].server = "web.js"
                             THEN WebJsImg(plain[i], res)
                             ELSE handleXkcdRequest(plain[i], res)]
    /\ UNCHANGED <<cache, now, reqs, started, out, gets>>

PlainNext == PlainRequest \/ PlainImg

PlainSpec == Init /\ [][PlainNext]_vars

(***************************************************************************)
(* Vocabulary of the properties.                                           *)
(***************************************************************************)
\* o is a response (a step that returns none leaves NoResponse in out)
IsResponse(o) == o.req # 0

\* o is a success envelope
IsSuccess(o) == IsResponse(o) /\ o.status = 200

\* the last element of a non-empty sequence
Last(seq) == seq[Len(seq)]

\* the upstream answer a is a failed fetch: a non-success status, or a body
\* that is no JSON
IsBadStatus(a) == a.status # 0 /\ ~(a.status >= 200 /\ a.status <= 299)
IsBadBody(a) == a.status >= 200 /\ a.status <= 299 /\ a.body.kind = "invalid"
IsRejected(a) == a.status = 0

\* o ends a request whose last outbound fetch failed
FetchFailed(o) ==
    /\ IsResponse(o)
    /\ Len(o.resps) > 0
    /\ (IsBadStatus(Last(o.resps)) \/ IsBadBody(Last(o.resps)) \/ IsRejected(Last(o.resps)))

\* the message carries the status code
Carries(message, status) == \E i \in 1..Len(message) : message[i] = ToString(status)

\* the step accepts a request
Accepts == started' = started + 1

(***************************************************************************)
(* C1.  Clearing the cache leaves the store with size 0 and reports the    *)
(* size that existed immediately before clearing: GET /cache/clear on a    *)
(* store of n entries answers previousSize = n, and a GET /cache/stats     *)
(* that follows it directly reports size 0.                                *)
(***************************************************************************)
ClearAnswered(o) == IsSuccess(o) /\ o.op = "clear"
StatsAnswered(o) == IsSuccess(o) /\ o.op = "stats"

C1_ClearReportsPreviousSize ==
    [][/\ ClearAnswered(out') =>
            /\ cache' = {}
            /\ out'.body.data.previousSize = Cardinality(cache)
       /\ (ClearAnswered(out) /\ StatsAnswered(out')) => out'.body.data.size = 0]_vars

(***************************************************************************)
(* C2.  After put(k, v), a lookup of k within the TTL window returns v,    *)
(* is reported as a cache hit (cached = true) and issues no outbound       *)
(* fetch, for every payload v, the falsy ones included.  Stated on the     *)
(* lookup whose result the request returns: when the entry of its key was  *)
(* younger than the TTL, the step answers the request from the store.      *)
(***************************************************************************)
C2_FreshEntryIsAHit ==
    gets # <<>> =>
        LET g == Last(gets)
        IN  (\E e \in g.before : e.key = g.key /\ now - e.timestamp < CACHE_DURATION) =>
                /\ IsSuccess(out)
                /\ out.body.cached = TRUE
                /\ \A e \in g.before : e.key = g.key => out.body.data = e.data

(***************************************************************************)
(* C3.  get(k) returns a payload only if an entry for k exists and         *)
(* now - insertedAt < TTL (strictly).  In every other case it returns      *)
(* absent, and an entry that existed for k has been removed: the store is  *)
(* one entry smaller and every other key is unchanged.                     *)
(***************************************************************************)
GetIsLazyTtl(g) ==
    LET mine == {e \in g.before : e.key = g.key}
        fresh == {e \in mine : now - e.timestamp < CACHE_DURATION}
    IN  /\ g.ret # Null => \E e \in fresh : g.ret = e.data
        /\ fresh = {} =>
              /\ g.ret = Null
              /\ g.after = g.before \ mine
              /\ mine # {} => Cardinality(g.after) = Cardinality(g.before) - 1

C3_GetReturnsOnlyFresh == \A i \in 1..Len(gets) : GetIsLazyTtl(gets[i])

\* a lookup met an entry exactly CACHE_DURATION old and removed it
C3_Witness ==
    \E i \in 1..Len(gets) :
        /\ \E e \in gets[i].before :
              e.key = gets[i].key /\ now - e.timestamp = CACHE_DURATION
        /\ gets[i].ret = Null
        /\ Cardinality(gets[i].after) = Cardinality(gets[i].before) - 1
        /\ cache = gets[i].after

(***************************************************************************)
(* C4.  After a request for latest or for comic n has succeeded with       *)
(* cached = false, a later request for the same resource that starts       *)
(* within the TTL of that insertion, with no /cache/clear in between, is   *)
(* answered with cached = true and X-Cache: HIT, carries the same payload  *)
(* and issues no outbound fetch.  Stated for the request accepted right    *)
(* after the miss was answered.                                            *)
(***************************************************************************)
\* the request the step accepts: its response, or the slot it went to wait in
Accepted ==
    IF IsResponse(out') THEN out'
    ELSE reqs'[CHOOSE r \in Slots : reqs'[r] # reqs[r]]

C4_RepeatIsAHit ==
    [][(/\ IsSuccess(out)
        /\ out.op \in {"latest", "comic"}
        /\ out.body.cached = FALSE
        /\ Accepts
        /\ Accepted.op \in {"latest", "comic"}
        /\ Accepted.key = out.key
        /\ now' - out.body.timestamp < CACHE_DURATION)
       => /\ IsSuccess(out')
          /\ out'.body.cached = TRUE
          /\ out'.xcache = "HIT"
          /\ out'.body.data = out.body.data
          /\ out'.calls = <<>>]_vars

(***************************************************************************)
(* C5.  When an upstream fetch fails, the request is answered with status  *)
(* 500 and an envelope {success: false, error}, and the store stays        *)
(* consistent: the failing step inserts no entry and changes no entry,     *)
(* also when the request had evicted a stale entry of its key before.      *)
(* The message carries the upstream status code when the failure is a      *)
(* non-success status.                                                     *)
(***************************************************************************)
\* no request goes on after a failed fetch
NoneSurvivesFailure(rs) ==
    \A r \in Slots : \A i \in 1..Len(rs[r].resps) :
        /\ ~IsBadStatus(rs[r].resps[i])
        /\ ~IsBadBody(rs[r].resps[i])
        /\ ~IsRejected(rs[r].resps[i])

FailureEnvelope(o) ==
    /\ o.status = 500
    /\ DOMAIN o.body = {"success", "error"}
    /\ o.body.success = FALSE
    /\ Len(o.body.error) > 0

C5_FailureIsAnError ==
    [][/\ NoneSurvivesFailure(reqs')
       /\ FetchFailed(out') =>
            /\ FailureEnvelope(out')
            /\ IsBadStatus(Last(out'.resps)) =>
                  Carries(out'.body.error, Last(out'.resps).status)
            /\ cache' = cache
            /\ reqs'[out'.req] = IdleReq]_vars

\* a 503 answers the fetch of a request whose lookup had evicted a stale entry
C5_Witness ==
    /\ FetchFailed(out)
    /\ Last(out.resps).status = 503
    /\ out.evicted
    /\ ~HasEntry(cache, out.key)

\* C5 as first stated: the message carries the upstream status code also
\* when the failure is an unparseable body
C5_FailureCarriesStatus ==
    [][(FetchFailed(out') /\ ~IsRejected(Last(out'.resps))) =>
            /\ FailureEnvelope(out')
            /\ Carries(out'.body.error, Last(out'.resps).status)
            /\ cache' = cache]_vars

(***************************************************************************)
(* C6.  For any latest ordinal N >= 1, the comic number that /random       *)
(* resolves and fetches is an integer in [1, N]: never 0, never N + 1.     *)
(***************************************************************************)
\* q is a request, or the response to one, that has drawn its comic number
HasDrawn(q) == q.op = "random" /\ q.stage = "comic"

C6_RandomInRange ==
    /\ \A r \in Slots :
          HasDrawn(reqs[r]) =>
             /\ reqs[r].ordinal >= 1
             /\ reqs[r].num \in 1..reqs[r].ordinal
             /\ Last(reqs[r].calls) =
                   "https://xkcd.com/" \o ToString(reqs[r].num) \o "/info.0.json"
    /\ (IsResponse(out) /\ HasDrawn(out)) =>
          /\ out.num \in 1..out.ordinal
          /\ out.key = "comic-" \o ToString(out.num)

\* a /random request fetches the comic numbered like the latest one
C6_Witness ==
    \E r \in Slots :
        /\ HasDrawn(reqs[r])
        /\ reqs[r].pc = "fetch"
        /\ reqs[r].ordinal > 1
        /\ reqs[r].num = reqs[r].ordinal

(***************************************************************************)
(* C7.  If the latest lookup made by /random fails, the /random request    *)
(* fails with that same error: no comic number is chosen, no numbered      *)
(* fetch is issued, no fallback number is used, and no cache entry is      *)
(* inserted.                                                               *)
(***************************************************************************)
\* the upstream answer that slot r receives in the step
StepAnswer(r) ==
    Last(IF reqs'[r].pc = "idle" THEN out'.resps ELSE reqs'[r].resps)

\* slot r receives the answer to its outbound fetch in the step
Settles(r) == reqs[r].pc = "fetch" /\ reqs'[r] # reqs[r]

IsFailure(a) == IsBadStatus(a) \/ IsBadBody(a) \/ IsRejected(a)

\* the message of the error that the failed fetch answered by a throws
ErrorOf(a) ==
    IF IsRejected(a) THEN <<"error sending request">>
    ELSE IF IsBadBody(a) THEN <<"Unexpected token in JSON">>
    ELSE <<"HTTP ", ToString(a.status), ": ", StatusText(a.status)>>

C7_RandomFailsWithLatest ==
    [][\A r \in Slots :
          (/\ Settles(r)
           /\ reqs[r].op = "random"
           /\ reqs[r].stage = "latest"
           /\ IsFailure(StepAnswer(r)))
          => /\ out'.req = r
             /\ out'.status = 500
             /\ out'.body = [success |-> FALSE, error |-> ErrorOf(StepAnswer(r))]
             /\ out'.stage = "latest"
             /\ out'.num = 0
             /\ out'.ordinal = 0
             /\ out'.calls = <<"https://xkcd.com/info.0.json">>
             /\ cache' = cache
             /\ reqs'[r] = IdleReq]_vars

\* a /random request has failed on its latest lookup, next to a stored entry
C7_Witness ==
    /\ FetchFailed(out)
    /\ out.op = "random"
    /\ out.stage = "latest"
    /\ cache # {}

(***************************************************************************)
(* C8.  Under any interleaving of in-flight requests that look up, evict   *)
(* and insert the same key, the store never holds more than one entry for  *)
(* a key and never a torn entry: every stored entry is a complete          *)
(* (payload, insertedAt) pair written by a single put.                     *)
(***************************************************************************)
\* the answers slot r has received once the step is done
AnswersAfter(r) == IF reqs'[r].pc = "idle" THEN out'.resps ELSE reqs'[r].resps

C8_EntriesAreWhole ==
    [][/\ \A e1, e2 \in cache' : e1.key = e2.key => e1 = e2
       /\ \A e \in cache' : DOMAIN e = {"key", "data", "timestamp"}
       /\ \A e \in cache' \ cache :
             \E r \in Slots :
                /\ Settles(r)
                /\ e.key = reqs[r].key
                /\ e.data = Last(AnswersAfter(r)).body
                /\ e.timestamp = now
       /\ Cardinality(cache' \ cache) <= 1]_vars

\* a request has inserted the entry of a key that another request, which
\* looked the key up before, is still fetching
C8_Witness ==
    /\ IsSuccess(out)
    /\ out.body.cached = FALSE
    /\ \E r \in Slots :
          /\ reqs[r].pc = "fetch"
          /\ reqs[r].key = out.key
          /\ \E e \in cache : e.key = out.key /\ e.data = out.body.data

(***************************************************************************)
(* C9.  A request issues exactly one outbound call per cache miss and      *)
(* never retries: a latest or by-number request issues none on a hit and   *)
(* exactly one on a miss; a /random request issues at most two, one after  *)
(* the other, latest first; preflight, /cache/stats, /cache/clear and      *)
(* not-found requests issue none; a failed call is never repeated.         *)
(***************************************************************************)
UrlOfKey(key) ==
    IF key = "latest" THEN "https://xkcd.com/info.0.json"
    ELSE "https://xkcd.com/" \o ToString(CHOOSE n \in 0..(MaxNum + 1) :
                                            key = "comic-" \o ToString(n))
         \o "/info.0.json"

\* the calls of a request that is waiting: each but the last one answered,
\* and answered well
WaitsOnOneCall(rq) ==
    /\ Len(rq.calls) = Len(rq.resps) + 1
    /\ \A i \in 1..Len(rq.resps) : ~IsFailure(rq.resps[i])
    /\ Last(rq.calls) = UrlOfKey(rq.key)
    /\ IF rq.op = "random"
       THEN /\ Len(rq.calls) <= 2
            /\ Len(rq.calls) = 2 => rq.calls[1] = "https://xkcd.com/info.0.json"
            /\ rq.stage = "latest" => Len(rq.calls) = 1
       ELSE Len(rq.calls) = 1

\* the calls of a request that has been answered
CallsOfAnswered(o) ==
    /\ Len(o.calls) = Len(o.resps)
    /\ \A i \in 1..(Len(o.resps) - 1) : ~IsFailure(o.resps[i])
    /\ CASE o.op \in {"latest", "comic"} ->
               IF IsSuccess(o) /\ o.body.cached
               THEN o.calls = <<>>
               ELSE o.calls = <<UrlOfKey(o.key)>>
         [] o.op = "random" ->
               /\ Len(o.calls) <= 2
               /\ Len(o.calls) = 2 =>
                     o.calls = <<"https://xkcd.com/info.0.json", UrlOfKey(o.key)>>
               /\ Len(o.calls) = 1 =>
                     \/ o.calls = <<"https://xkcd.com/info.0.json">>
                     \/ o.stage = "comic" /\ o.calls = <<UrlOfKey(o.key)>>
               /\ (IsSuccess(o) /\ o.body.cached) =>
                     o.calls \in {<<>>, <<"https://xkcd.com/info.0.json">>}
               /\ (IsSuccess(o) /\ ~o.body.cached) =>
                     Last(o.calls) = UrlOfKey(o.key)
         [] OTHER -> o.calls = <<>>

C9_OneFetchPerMiss ==
    /\ \A r \in Slots : reqs[r].pc = "fetch" => WaitsOnOneCall(reqs[r])
    /\ IsResponse(out) => CallsOfAnswered(out)

\* a /random request answered after two outbound calls
C9_Witness ==
    /\ IsSuccess(out)
    /\ out.op = "random"
    /\ Len(out.calls) = 2

(***************************************************************************)
(* C10.  A request with the preflight method, on any path, is answered     *)
(* at once with status 204 and no body, and is terminal: the path is not   *)
(* resolved, no outbound fetch is issued and the store is left unchanged,  *)
(* OPTIONS /cache/clear included.                                          *)
(***************************************************************************)
C10_PreflightIsTerminal ==
    [][/\ \A r \in Slots : reqs'[r].method # "OPTIONS"
       /\ (Accepts /\ IsResponse(out') /\ out'.method = "OPTIONS") =>
             /\ out'.status = 204
             /\ out'.body = NoBody
             /\ out'.op = ""
             /\ out'.calls = <<>>
             /\ gets' = <<>>
             /\ cache' = cache
             /\ reqs' = reqs]_vars

\* OPTIONS /cache/clear has been answered and the store still holds an entry
C10_Witness ==
    /\ IsResponse(out)
    /\ out.method = "OPTIONS"
    /\ out.path = ClearPath
    /\ cache # {}

(***************************************************************************)
(* C11.  A request that is no preflight and whose path is none of /,       *)
(* /latest, /random, /{digits}, /cache/stats, /cache/clear is answered at  *)
(* once with status 404 and the envelope {success: false, error: "Not      *)
(* Found", path}, the path being the requested one; it issues no outbound  *)
(* fetch and leaves the store unchanged.                                   *)
(***************************************************************************)
\* the path is one of the routes
MatchesARoute(path) ==
    \/ path \in {<<"/">>, <<"/", "l", "a", "t", "e", "s", "t">>,
                 <<"/", "r", "a", "n", "d", "o", "m">>,
                 <<"/", "c", "a", "c", "h", "e", "/", "s", "t", "a", "t", "s">>,
                 <<"/", "c", "a", "c", "h", "e", "/", "c", "l", "e", "a", "r">>}
    \/ /\ Len(path) >= 2
       /\ path[1] = "/"
       /\ \A i \in 2..Len(path) :
             path[i] \in {"0", "1", "2", "3", "4", "5", "6", "7", "8", "9"}

\* the characters of a path in one string
RECURSIVE Joined(_)
Joined(path) == IF path = <<>> THEN "" ELSE Head(path) \o Joined(Tail(path))

C11_UnmatchedIsNotFound ==
    [][(Accepts /\ Accepted.method # "OPTIONS" /\ ~MatchesARoute(Accepted.path)) =>
            /\ IsResponse(out')
            /\ out'.status = 404
            /\ out'.body = [success |-> FALSE, error |-> <<"Not Found">>,
                            path |-> Joined(out'.path)]
            /\ out'.calls = <<>>
            /\ gets' = <<>>
            /\ cache' = cache
            /\ reqs' = reqs]_vars

\* POST /1a has been answered 404 next to a stored entry and a request in flight
C11_Witness ==
    /\ IsResponse(out)
    /\ out.method = "POST"
    /\ out.status = 404
    /\ out.body.path = "/1a"
    /\ cache # {}
    /\ \E r \in Slots : reqs[r].pc = "fetch"

(***************************************************************************)
(* C12.  After a successful by-number request for n the store holds an     *)
(* entry under the key "comic-{n}", and /cache/stats reports exactly the   *)
(* size and the key set of the store, so that a /cache/stats following     *)
(* the request directly lists "comic-{n}" and reports size >= 1.           *)
(* /cache/stats and /cache/clear are never cached: they answer cached =    *)
(* false, insert no entry, and /cache/stats leaves the store unchanged.    *)
(***************************************************************************)
\* o is the success response to GET /n
ByNumberAnswered(o, n) == IsSuccess(o) /\ o.path = <<"/", ToString(n)>>

C12_StatsReportsTheStore ==
    [][/\ \A n \in 0..9 :
             /\ ByNumberAnswered(out', n) =>
                   \E e \in cache' :
                      e.key = "comic-" \o ToString(n) /\ e.data = out'.body.data
             /\ (ByNumberAnswered(out, n) /\ StatsAnswered(out')) =>
                   /\ "comic-" \o ToString(n) \in out'.body.data.keys
                   /\ out'.body.data.size >= 1
       /\ StatsAnswered(out') =>
             /\ out'.body.data.size = Cardinality(cache')
             /\ out'.body.data.keys = {e.key : e \in cache'}
             /\ out'.body.cached = FALSE
             /\ out'.xcache = "MISS"
             /\ cache' = cache
       /\ ClearAnswered(out') =>
             /\ out'.body.cached = FALSE
             /\ out'.xcache = "MISS"
             /\ cache' \subseteq cache]_vars

\* /cache/stats lists the entry of comic 1, inserted some time before
C12_Witness ==
    /\ StatsAnswered(out)
    /\ out.body.data.keys = {"comic-1"}
    /\ out.body.data.size = 1
    /\ \E e \in cache : e.timestamp < now

(***************************************************************************)
(* C13.  Provided every outbound fetch eventually completes or fails,      *)
(* every request eventually completes, with exactly one response: a        *)
(* response is returned exactly in the step that ends its request.  On     *)
(* every branch (preflight 204, success 200, not-found 404, failure 500)   *)
(* the request log holds exactly one line for the request, written by the  *)
(* step that returns the response and carrying the status of the response. *)
(***************************************************************************)
\* the step ends the request of slot r
Ends(r) == reqs[r].pc = "fetch" /\ reqs'[r].pc = "idle"

\* the step accepts a request and ends it at once
EndsAtOnce == Accepts /\ reqs' = reqs

C13_OneResponseOneLogLine ==
    /\ [][/\ IsResponse(out') <=> (EndsAtOnce \/ \E r \in Slots : Ends(r))
          /\ \A r \in Slots : Ends(r) => out'.req = r
          /\ IsResponse(out') =>
                /\ out'.status \in {204, 200, 404, 500}
                /\ out'.log = <<out'.status>>
          /\ ~IsResponse(out') => out'.log = <<>>]_vars
    /\ \A r \in Slots : (reqs[r].pc # "idle") ~> (reqs[r].pc = "idle")

\* a /random request has ended in a failure of its second outbound call
C13_Witness ==
    /\ IsResponse(out)
    /\ out.op = "random"
    /\ Len(out.calls) = 2
    /\ out.status = 500
    /\ out.log = <<500>>
    /\ reqs[out.req].pc = "idle"

(***************************************************************************)
(* C14.  In the plain image servers a request to / with any of the         *)
(* methods GET, POST, PUT, DELETE or OPTIONS is answered with 200 OK and   *)
(* a JSON body, and each request receives exactly one response.            *)
(***************************************************************************)
C14_PlainAnswers200Json ==
    \A i \in 1..Len(plain) :
        /\ plain[i].ends <= 1
        /\ plain[i].pc = "done" =>
              /\ plain[i].ends = 1
              /\ plain[i].heads = <<200>>
              /\ plain[i].body # NoBody
              /\ plain[i].body.json

(***************************************************************************)
(* C15.  Eviction is purely access-triggered: a key leaves the store only  *)
(* when a lookup of that key finds its entry stale or when /cache/clear    *)
(* runs, and an entry whose key stays is only ever replaced by a put of    *)
(* its own key.  The passage of time alone, /cache/stats, a lookup or an   *)
(* insert of another key, a failed fetch, a not-found or a preflight       *)
(* request remove nothing, so a stale entry stays in the store, counted    *)
(* and listed by /cache/stats, until its key is read or the store is       *)
(* cleared.                                                                *)
(***************************************************************************)
\* the step looks key k up and the entry it finds is stale
StaleLookup(k) ==
    /\ \E i \in 1..Len(gets') : gets'[i].key = k
    /\ \E e \in cache : e.key = k /\ now - e.timestamp >= CACHE_DURATION

C15_EvictionOnAccessOnly ==
    [][/\ \A e \in cache :
             (\A f \in cache' : f.key # e.key) =>
                 (ClearAnswered(out') \/ StaleLookup(e.key))
       /\ \A e \in cache \ cache' :
             (\E f \in cache' : f.key = e.key) =>
                 \E r \in Slots : Settles(r) /\ reqs[r].key = e.key
       /\ now' # now => cache' = cache
       /\ StatsAnswered(out') =>
             /\ cache' = cache
             /\ out'.body.data.size = Cardinality(cache)
             /\ \A e \in cache : e.key \in out'.body.data.keys]_vars

\* /cache/stats lists an entry that is stale
C15_Witness ==
    /\ StatsAnswered(out)
    /\ \E e \in cache :
          /\ now - e.timestamp >= CACHE_DURATION
          /\ e.key \in out.body.data.keys
    /\ out.body.data.size = Cardinality(cache)

(***************************************************************************)
(* C16.  A /random request consults and populates the "latest" entry for   *)
(* its ordinal lookup and stores the chosen comic under "comic-{n}": after *)
(* a successful /random on an empty store (the only request so far) the    *)
(* store holds exactly the keys "latest" and "comic-{n}" for the chosen n; *)
(* when a fresh "latest" entry exists as the request arrives, /random      *)
(* issues no outbound call for latest.                                     *)
(***************************************************************************)
\* the calls of Accepted contain url
Calls(q, url) == \E i \in 1..Len(q.calls) : q.calls[i] = url

C16_RandomUsesLatestEntry ==
    [][/\ (IsSuccess(out') /\ out'.op = "random" /\ started' = 1) =>
             {e.key : e \in cache'} = {"latest", "comic-" \o ToString(out'.num)}
       /\ (/\ Accepts
           /\ Accepted.op = "random"
           /\ \E e \in cache :
                 e.key = "latest" /\ now - e.timestamp < CACHE_DURATION)
          => ~Calls(Accepted, "https://xkcd.com/info.0.json")]_vars

(***************************************************************************)
(* C17.  A numeric path segment is never pre-validated: GET /0 is          *)
(* resolved as the by-number operation with n = 0 under the cache key      *)
(* "comic-0"; with no entry of that key in the store it issues an          *)
(* outbound fetch for resource 0, and when the upstream answers 404 the    *)
(* request ends as a 500 error envelope with no entry inserted.  It is     *)
(* never answered by the not-found (404) branch of the dispatcher.         *)
(***************************************************************************)
C17_ZeroIsPassedThrough ==
    [][/\ (Accepts /\ Accepted.method = "GET" /\ Accepted.path = <<"/", "0">>) =>
             /\ Accepted.op = "comic"
             /\ Accepted.num = 0
             /\ Accepted.key = "comic-0"
             /\ IsResponse(out') => out'.status # 404
             /\ (\A e \in cache : e.key # "comic-0") =>
                   /\ ~IsResponse(out')
                   /\ Accepted.pc = "fetch"
                   /\ Accepted.calls = <<"https://xkcd.com/0/info.0.json">>
       /\ \A r \in Slots :
             (Settles(r) /\ reqs[r].path = <<"/", "0">> /\ StepAnswer(r).status = 404) =>
                 /\ out'.req = r
                 /\ out'.status = 500
                 /\ out'.body = [success |-> FALSE,
                                 error |-> <<"HTTP ", "404", ": ", "Not Found">>]
                 /\ out'.calls = <<"https://xkcd.com/0/info.0.json">>
                 /\ cache' = cache
                 /\ reqs'[r] = IdleReq]_vars

\* GET /0 has ended in a 500 after the upstream's 404, next to a stored entry
C17_Witness ==
    /\ IsResponse(out)
    /\ out.path = <<"/", "0">>
    /\ out.status = 500
    /\ Last(out.resps).status = 404
    /\ cache # {}
    /\ \A e \in cache : e.key # "comic-0"

(***************************************************************************)
(* C18.  A cache hit leaves the store unchanged; in particular it does     *)
(* not refresh insertedAt, so the TTL runs from the insertion and not      *)
(* from the last access: whenever a payload is answered with cached =      *)
(* true, the lookup that returned it changed nothing, and the entry of the *)
(* key still carries that payload and an insertion time less than the TTL  *)
(* before the lookup.                                                      *)
(***************************************************************************)
C18_HitDoesNotRefresh ==
    (IsSuccess(out) /\ out.body.cached) =>
        /\ gets # <<>>
        /\ Last(gets).key = out.key
        /\ Last(gets).after = Last(gets).before
        /\ cache = Last(gets).before
        /\ \E e \in cache :
              /\ e.key = out.key
              /\ e.data = out.body.data
              /\ e.timestamp <= now
              /\ now - e.timestamp < CACHE_DURATION

\* a hit on an entry one millisecond short of the TTL
C18_Witness ==
    /\ IsSuccess(out)
    /\ out.body.cached
    /\ \E e \in cache :
          e.key = out.key /\ now - e.timestamp = CACHE_DURATION - 1

(***************************************************************************)
(* C19.  Misses are not coalesced: a request that looks a key up while     *)
(* another request is fetching it, before that one has inserted, issues    *)
(* its own outbound fetch, and each of the two answers cached = false.     *)
(* Every fetch that completes successfully puts its payload: after it the  *)
(* store holds exactly one entry of the key, with the payload and the      *)
(* insertion time of this put, whatever entry an earlier put had left      *)
(* there, and also when a /cache/clear has emptied the store since the     *)
(* request missed.                                                         *)
(***************************************************************************)
\* the answer slot r receives in the step is a payload
SettlesWell(r) == Settles(r) /\ ~IsFailure(StepAnswer(r))

C19_MissesAreNotCoalesced ==
    [][/\ (/\ Accepts
           /\ Accepted.op \in {"latest", "comic"}
           /\ Accepted.method # "OPTIONS"
           /\ \A e \in cache : e.key # Accepted.key
           /\ \E r \in Slots : reqs[r].pc = "fetch" /\ reqs[r].key = Accepted.key)
          => /\ ~IsResponse(out')
             /\ Accepted.pc = "fetch"
             /\ Accepted.calls = <<UrlOfKey(Accepted.key)>>
       /\ \A r \in Slots :
             SettlesWell(r) =>
                /\ {e \in cache' : e.key = reqs[r].key} =
                      {[key |-> reqs[r].key, data |-> StepAnswer(r).body,
                        timestamp |-> now]}
                /\ (reqs[r].op = "random" => reqs[r].stage = "comic") =>
                      /\ \A e \in cache : e.key # reqs[r].key => e \in cache'
                      /\ out'.req = r
                      /\ out'.key = reqs[r].key
                      /\ out'.status = 200
                      /\ out'.body.cached = FALSE
                      /\ out'.body.data = StepAnswer(r).body]_vars

\* The second of two requests to miss the same key has completed after the
\* first: its entry, put at a later time, is the only one in the store.
C19_Witness ==
    /\ IsSuccess(out)
    /\ out.req = 2
    /\ out.op \in {"latest", "comic"}
    /\ ~out.body.cached
    /\ now > 0
    /\ cache = {[key |-> out.key, data |-> out.body.data, timestamp |-> now]}

(***************************************************************************)
(* C20.  On every success response the X-Cache header is HIT exactly when  *)
(* the cached field of the envelope is true, and MISS otherwise, and       *)
(* cached is true exactly when the returned resource was taken from the    *)
(* store without an outbound fetch for it.  For /random the flag reflects  *)
(* the lookup of the chosen comic-{n} alone, whether the latest lookup     *)
(* before it hit or missed.                                                *)
(***************************************************************************)
C20_FlagTellsTheSource ==
    IsSuccess(out) =>
        /\ out.body.cached \in BOOLEAN
        /\ out.xcache = (IF out.body.cached THEN "HIT" ELSE "MISS")
        /\ IF out.op \in {"latest", "comic", "random"}
           THEN /\ out.body.cached <=> ~Calls(out, UrlOfKey(out.key))
                /\ out.body.cached =>
                      \E e \in cache : e.key = out.key /\ e.data = out.body.data
                /\ ~out.body.cached =>
                      /\ Last(out.calls) = UrlOfKey(out.key)
                      /\ Last(out.resps).body = out.body.data
                /\ out.op = "random" => out.key = "comic-" \o ToString(out.num)
           ELSE /\ ~out.body.cached
                /\ out.calls = <<>>

\* /random answered from the store after its latest lookup had missed
C20_Witness ==
    /\ IsSuccess(out)
    /\ out.op = "random"
    /\ out.body.cached
    /\ out.xcache = "HIT"
    /\ out.calls = <<"https://xkcd.com/info.0.json">>

====
